---- MODULE Spec2Model ----
(***************************************************************************)
(* Model of the McpUnity connection manager (class McpUnity): one held     *)
(* WebSocket handle, the pendingRequests table, the request and connect    *)
(* timers, and the callers suspended in sendRequest() and start().         *)
(*                                                                         *)
(* JavaScript runs every handler to completion, and the continuation of an *)
(* `await` runs as a microtask right after the handler that settled the    *)
(* awaited promise, before any other timer or socket event.  Each action   *)
(* below is therefore one macrotask: a public call, a socket event or a    *)
(* timer callback, together with the continuations it releases.  The one   *)
(* thing that runs before such a continuation is a frame that reached the  *)
(* socket together with the handshake response: the socket delivers it on  *)
(* process.nextTick, ahead of the promise jobs (see onopen).               *)
(***************************************************************************)
EXTENDS Integers, Sequences, FiniteSets, TLC

\* ----------------------------------------------------------------- bounds
MaxCalls == 2
MaxStarts == 1
NumUserIds == 1
NumPayloads == 2

\* Every sendRequest() and start() creates at most one handle, and every
\* request timer that fires creates one more (reconnect).
MaxHandles == 2 * MaxCalls + MaxStarts

Calls == 1..MaxCalls
Starts == 1..MaxStarts
Handles == 1..MaxHandles
\* uuidv4() of call c is modelled as the identifier c; caller-supplied
\* identifiers are 101, 102, ...
UserIds == {100 + i : i \in 1..NumUserIds}
Ids == Calls \cup UserIds
Payloads == {"payload" \o ToString(i) : i \in 1..NumPayloads}

VARIABLES
    ws,               \* this.ws: the held handle, 0 for null
    readyState,       \* readyState of every handle created so far
    handlers,         \* whether onopen/onmessage/onerror/onclose are attached
    connectPromise,   \* the promise returned by the connect() that made the handle
    connectOwner,     \* who awaits that promise
    connTimer,        \* connectionTimeout of that connect()
    nHandles,         \* number of handles created (new WebSocket)
    pendingRequests,  \* this.pendingRequests: id -> the call whose resolve/reject/timeout it stores, 0 if absent
    timerQ,           \* the armed timers, oldest first (all have the same duration)
    stage,            \* position of every sendRequest() call
    requestId,        \* requestId of the call
    sendThrows,       \* whether JSON.stringify/ws.send of the call throws
    reqTimer,         \* the timeout of the call
    outcome,          \* how the call's promise settled
    settles,          \* how often resolve/reject of the call's promise was invoked
    sent,             \* transmissions of the call
    sentOn,           \* the handle the call was transmitted on, 0 if none
    attempts,         \* connect() calls made by the call
    startStage,       \* position of every start() call
    last              \* what the last macrotask did

vars == <<ws, readyState, handlers, connectPromise, connectOwner, connTimer, nHandles,
          pendingRequests, timerQ, stage, requestId, sendThrows, reqTimer, outcome,
          settles, sent, sentOn, attempts, startStage, last>>

\* ------------------------------------------------------------ state record
\* The handlers call each other (connect calls disconnect, a timeout calls
\* reconnect, ...), so each is an operator from state to state.
Cur ==
    [ws |-> ws, readyState |-> readyState, handlers |-> handlers,
     connectPromise |-> connectPromise, connectOwner |-> connectOwner,
     connTimer |-> connTimer, nHandles |-> nHandles,
     pendingRequests |-> pendingRequests, timerQ |-> timerQ, stage |-> stage,
     requestId |-> requestId, sendThrows |-> sendThrows, reqTimer |-> reqTimer,
     outcome |-> outcome, settles |-> settles, sent |-> sent, sentOn |-> sentOn,
     attempts |-> attempts, startStage |-> startStage,
     torn |-> 0, made |-> 0, drained |-> {}, noop |-> FALSE]

Commit(s, op, n, m) ==
    /\ ws' = s.ws
    /\ readyState' = s.readyState
    /\ handlers' = s.handlers
    /\ connectPromise' = s.connectPromise
    /\ connectOwner' = s.connectOwner
    /\ connTimer' = s.connTimer
    /\ nHandles' = s.nHandles
    /\ pendingRequests' = s.pendingRequests
    /\ timerQ' = s.timerQ
    /\ stage' = s.stage
    /\ requestId' = s.requestId
    /\ sendThrows' = s.sendThrows
    /\ reqTimer' = s.reqTimer
    /\ outcome' = s.outcome
    /\ settles' = s.settles
    /\ sent' = s.sent
    /\ sentOn' = s.sentOn
    /\ attempts' = s.attempts
    /\ startStage' = s.startStage
    /\ last' = [op |-> op, n |-> n, msg |-> m, torn |-> s.torn, made |-> s.made,
                drained |-> s.drained, noop |-> s.noop]

\* ------------------------------------------------------------------ values
NoOutcome == [kind |-> "none", msg |-> ""]
Result(p) == [kind |-> "Result", msg |-> p]
ToolExecution(m) == [kind |-> "ToolExecution", msg |-> m]
Timeout == [kind |-> "Timeout", msg |-> "Request timed out"]
Connection(m) == [kind |-> "Connection", msg |-> m]

NoOwner == [kind |-> "none", n |-> 0]
SendOwner(c) == [kind |-> "send", n |-> c]
StartOwner(k) == [kind |-> "start", n |-> k]

ReqT(c) == [kind |-> "req", n |-> c]
ConnT(h) == [kind |-> "conn", n |-> h]

\* The frame of a step that received none.
NoMessage == [kind |-> "none", id |-> 0, err |-> "none", result |-> "", emsg |-> ""]

Without(q, t) == SelectSeq(q, LAMBDA x : x # t)

Init ==
    /\ ws = 0
    /\ readyState = [h \in Handles |-> "NONE"]
    /\ handlers = [h \in Handles |-> FALSE]
    /\ connectPromise = [h \in Handles |-> "none"]
    /\ connectOwner = [h \in Handles |-> NoOwner]
    /\ connTimer = [h \in Handles |-> "none"]
    /\ nHandles = 0
    /\ pendingRequests = [i \in Ids |-> 0]
    /\ timerQ = <<>>
    /\ stage = [c \in Calls |-> "idle"]
    /\ requestId = [c \in Calls |-> 0]
    /\ sendThrows = [c \in Calls |-> FALSE]
    /\ reqTimer = [c \in Calls |-> "none"]
    /\ outcome = [c \in Calls |-> NoOutcome]
    /\ settles = [c \in Calls |-> 0]
    /\ sent = [c \in Calls |-> 0]
    /\ sentOn = [c \in Calls |-> 0]
    /\ attempts = [c \in Calls |-> 0]
    /\ startStage = [k \in Starts |-> "idle"]
    /\ last = [op |-> "init", n |-> 0, msg |-> NoMessage, torn |-> 0, made |-> 0,
               drained |-> {}, noop |-> FALSE]

\* ------------------------------------------------------------- the program
isConnected(s) == s.ws # 0 /\ s.readyState[s.ws] = "OPEN"

has(s, id) == s.pendingRequests[id] # 0

\* resolve(...) or reject(...) of the promise of call c: a promise keeps its
\* first settlement.
Settle(s, c, out) ==
    [s EXCEPT !.settles[c] = IF @ < 2 THEN @ + 1 ELSE @,
              !.outcome[c] = IF @ = NoOutcome THEN out ELSE @,
              !.stage[c] = "done"]

\* clearTimeout of the request timer of call c
clearRequestTimeout(s, c) ==
    IF s.reqTimer[c] = "armed"
    THEN [s EXCEPT !.reqTimer[c] = "cancelled", !.timerQ = Without(@, ReqT(c))]
    ELSE s

\* clearTimeout(connectionTimeout) of the connect() that made handle h
clearConnectionTimeout(s, h) ==
    IF s.connTimer[h] = "armed"
    THEN [s EXCEPT !.connTimer[h] = "cancelled", !.timerQ = Without(@, ConnT(h))]
    ELSE s

\* rejectAll with the clearTimeout of line 144 left out.
RECURSIVE rejectAll_KeepsTimers(_, _)
rejectAll_KeepsTimers(s, ids) ==
    IF ids = {} THEN s
    ELSE LET id == CHOOSE i \in ids : TRUE
             c == s.pendingRequests[id]
             s2 == Settle(s, c, Connection("Connection closed"))
             s3 == [s2 EXCEPT !.pendingRequests[id] = 0, !.drained = @ \cup {c}]
         IN rejectAll_KeepsTimers(s3, ids \ {id})

\* The loop of disconnect(): every entry has its timer cleared, its reject
\* called with 'Connection closed', and is deleted.
RECURSIVE rejectAll(_, _)
rejectAll(s, ids) ==
    IF ids = {} THEN s
    ELSE LET id == CHOOSE i \in ids : TRUE
             c == s.pendingRequests[id]
             s1 == clearRequestTimeout(s, c)
             s2 == Settle(s1, c, Connection("Connection closed"))
             s3 == [s2 EXCEPT !.pendingRequests[id] = 0, !.drained = @ \cup {c}]
         IN rejectAll(s3, ids \ {id})

\* disconnect that clears the handle and leaves the table alone.
disconnect_KeepsEntries(s) ==
    IF s.ws # 0
    THEN [s EXCEPT !.handlers[s.ws] = FALSE, !.readyState[s.ws] = "CLOSED",
                   !.ws = 0, !.torn = @ + 1]
    ELSE s

disconnect(s) ==
    IF s.ws # 0
    THEN LET h == s.ws
             s1 == [s EXCEPT !.handlers[h] = FALSE,
                             !.readyState[h] =
                                 IF @ = "CONNECTING" THEN "CLOSED"     \* terminate()
                                 ELSE IF @ = "OPEN" THEN "CLOSING"     \* close()
                                 ELSE @,
                             !.ws = 0,
                             !.torn = @ + 1]
         IN rejectAll(s1, {i \in Ids : has(s1, i)})
    ELSE s

\* dispatch without the re-check of lines 182-185: a null handle makes
\* this.ws.send throw inside the try, any other handle takes the message.
dispatch_NoRecheck(s, c) ==
    LET id == s.requestId[c]
        s1 == [s EXCEPT !.reqTimer[c] = "armed",
                        !.timerQ = Append(@, ReqT(c)),
                        !.pendingRequests[id] = c,
                        !.stage[c] = "waiting"]
    IN IF s.sendThrows[c] \/ s.ws = 0
       THEN LET s2 == clearRequestTimeout(s1, c)
                s3 == [s2 EXCEPT !.pendingRequests[id] = 0]
            IN Settle(s3, c, Connection("Send failed"))
       ELSE [s1 EXCEPT !.sent[c] = @ + 1, !.sentOn[c] = s.ws]

\* The executor of the promise sendRequest() returns (after the connect step).
dispatch(s, c) ==
    IF s.ws = 0 \/ ~isConnected(s)
    THEN Settle(s, c, Connection("Not connected to Unity"))
    ELSE LET id == s.requestId[c]
             s1 == [s EXCEPT !.reqTimer[c] = "armed",
                             !.timerQ = Append(@, ReqT(c)),
                             !.pendingRequests[id] = c,
                             !.stage[c] = "waiting"]
         IN IF s.sendThrows[c]
            THEN LET s2 == clearRequestTimeout(s1, c)
                     s3 == [s2 EXCEPT !.pendingRequests[id] = 0]
                 IN Settle(s3, c, Connection("Send failed"))
            ELSE [s1 EXCEPT !.sent[c] = @ + 1, !.sentOn[c] = s.ws]

\* resume that drops the rejection of connect() instead of passing it on.
resume_SwallowsFailure(s, owner, ok, msg) ==
    CASE owner.kind = "send" -> IF ok THEN dispatch(s, owner.n) ELSE s
      [] owner.kind = "start" ->
            IF ok THEN [s EXCEPT !.startStage[owner.n] = "done"]
            ELSE [disconnect(s) EXCEPT !.startStage[owner.n] = "done"]
      [] OTHER -> s

\* resume in which start() has no catch: the rejection reaches its caller.
resume_StartRethrows(s, owner, ok, msg) ==
    CASE owner.kind = "send" ->
            IF ok THEN dispatch(s, owner.n)
            ELSE Settle(s, owner.n, Connection(msg))
      [] owner.kind = "start" ->
            IF ok THEN [s EXCEPT !.startStage[owner.n] = "done"]
            ELSE [s EXCEPT !.startStage[owner.n] = "failed"]
      [] OTHER -> s

\* The continuation of whoever awaits a connect() promise, once it settles.
resume(s, owner, ok, msg) ==
    CASE owner.kind = "send" ->
            IF ok THEN dispatch(s, owner.n)
            ELSE Settle(s, owner.n, Connection(msg))
      [] owner.kind = "start" ->
            IF ok THEN [s EXCEPT !.startStage[owner.n] = "done"]
            ELSE [disconnect(s) EXCEPT !.startStage[owner.n] = "done"]
      [] OTHER -> s

\* connect without the disconnect() of line 53.
connect_NoTeardown(s, owner) ==
    IF isConnected(s)
    THEN resume([s EXCEPT !.noop = TRUE], owner, TRUE, "")
    ELSE LET h == s.nHandles + 1
         IN [s EXCEPT !.ws = h,
                      !.nHandles = h,
                      !.readyState[h] = "CONNECTING",
                      !.handlers[h] = TRUE,
                      !.connectPromise[h] = "pending",
                      !.connectOwner[h] = owner,
                      !.connTimer[h] = "armed",
                      !.timerQ = Append(@, ConnT(h)),
                      !.made = @ + 1]

\* connect without the isConnected guard of lines 48-51.
connect_NoGuard(s, owner) ==
    LET s1 == disconnect(s)
        h == s1.nHandles + 1
    IN [s1 EXCEPT !.ws = h,
                  !.nHandles = h,
                  !.readyState[h] = "CONNECTING",
                  !.handlers[h] = TRUE,
                  !.connectPromise[h] = "pending",
                  !.connectOwner[h] = owner,
                  !.connTimer[h] = "armed",
                  !.timerQ = Append(@, ConnT(h)),
                  !.made = @ + 1]

connect(s, owner) ==
    IF isConnected(s)
    THEN resume([s EXCEPT !.noop = TRUE], owner, TRUE, "")
    ELSE LET s1 == disconnect(s)
             h == s1.nHandles + 1
         IN [s1 EXCEPT !.ws = h,
                       !.nHandles = h,
                       !.readyState[h] = "CONNECTING",
                       !.handlers[h] = TRUE,
                       !.connectPromise[h] = "pending",
                       !.connectOwner[h] = owner,
                       !.connTimer[h] = "armed",
                       !.timerQ = Append(@, ConnT(h)),
                       !.made = @ + 1]

reconnect(s) == connect(disconnect(s), NoOwner)

\* resolve() / reject() of the promise of the connect() that made handle h
settleConnect(s, h, ok) ==
    IF s.connectPromise[h] = "pending"
    THEN [s EXCEPT !.connectPromise[h] = IF ok THEN "resolved" ELSE "rejected"]
    ELSE s

wasPending(s, h) == s.connectPromise[h] = "pending"

\* ws.onerror: the continuation of the rejected connect() runs after the
\* handler's own disconnect().
onerror(s, h) ==
    LET s1 == clearConnectionTimeout([s EXCEPT !.readyState[h] = "CLOSING"], h)
        s2 == settleConnect(s1, h, FALSE)
        s3 == disconnect(s2)
    IN IF wasPending(s, h)
       THEN resume(s3, s.connectOwner[h], FALSE, "Connection failed")
       ELSE s3

\* What the peer sent together with its handshake response: nothing, a close
\* frame (the handle turns CLOSING) or a frame the receiver rejects (onerror).
EarlyFrames == {"none", "close", "invalid"}

\* ws.onopen, then the frame that came with the handshake, then the
\* continuation of the resolved connect().
onopen(s, h, early) ==
    LET s1 == clearConnectionTimeout([s EXCEPT !.readyState[h] = "OPEN"], h)
        s2 == settleConnect(s1, h, TRUE)
        s3 == CASE early = "close" -> [s2 EXCEPT !.readyState[h] = "CLOSING"]
                [] early = "invalid" -> onerror(s2, h)
                [] OTHER -> s2
    IN IF wasPending(s, h) THEN resume(s3, s.connectOwner[h], TRUE, "") ELSE s3

\* ws.onclose
onclose(s, h) == disconnect([s EXCEPT !.readyState[h] = "CLOSED"])

\* An inbound frame: text that does not parse (or parses to null), an object
\* without id, or an object with an id.  error is absent ("none"), present
\* but falsy ("falsy"), an object with a message ("msg") or without ("nomsg").
ErrKinds == {"none", "falsy", "msg", "nomsg"}
Messages ==
    {[kind |-> "malformed", id |-> 0, err |-> "none", result |-> "", emsg |-> ""],
     [kind |-> "noid", id |-> 0, err |-> "none", result |-> "", emsg |-> ""]}
    \cup {[kind |-> "reply", id |-> i, err |-> e, result |-> p, emsg |-> ""] :
            i \in Ids, e \in {"none", "falsy"}, p \in Payloads}
    \cup {[kind |-> "reply", id |-> i, err |-> "msg", result |-> "", emsg |-> "boom"] :
            i \in Ids}
    \cup {[kind |-> "reply", id |-> i, err |-> "nomsg", result |-> "", emsg |-> ""] :
            i \in Ids}

\* handleMessage with the delete of line 102 left out.
handleMessage_KeepsEntry(s, m) ==
    IF m.kind = "reply" /\ has(s, m.id)
    THEN LET c == s.pendingRequests[m.id]
             s1 == clearRequestTimeout(s, c)
         IN IF m.err \in {"msg", "nomsg"}
            THEN Settle(s1, c, ToolExecution(IF m.emsg # "" THEN m.emsg
                                             ELSE "Unknown error"))
            ELSE Settle(s1, c, Result(m.result))
    ELSE [s EXCEPT !.noop = TRUE]

\* handleMessage that treats an error reply as a dead connection.
handleMessage_ErrorTearsDown(s, m) ==
    IF m.kind = "reply" /\ has(s, m.id)
    THEN LET c == s.pendingRequests[m.id]
             s1 == clearRequestTimeout(s, c)
             s2 == [s1 EXCEPT !.pendingRequests[m.id] = 0]
         IN IF m.err \in {"msg", "nomsg"}
            THEN disconnect(Settle(s2, c, ToolExecution(IF m.emsg # "" THEN m.emsg
                                                        ELSE "Unknown error")))
            ELSE Settle(s2, c, Result(m.result))
    ELSE [s EXCEPT !.noop = TRUE]

\* handleMessage that tears the connection down on a frame it cannot route.
handleMessage_UnroutedTearsDown(s, m) ==
    IF m.kind = "reply" /\ has(s, m.id)
    THEN LET c == s.pendingRequests[m.id]
             s1 == clearRequestTimeout(s, c)
             s2 == [s1 EXCEPT !.pendingRequests[m.id] = 0]
         IN IF m.err \in {"msg", "nomsg"}
            THEN Settle(s2, c, ToolExecution(IF m.emsg # "" THEN m.emsg
                                             ELSE "Unknown error"))
            ELSE Settle(s2, c, Result(m.result))
    ELSE disconnect([s EXCEPT !.noop = TRUE])

\* handleMessage without the test of response.error of line 103.
handleMessage_IgnoresError(s, m) ==
    IF m.kind = "reply" /\ has(s, m.id)
    THEN LET c == s.pendingRequests[m.id]
             s1 == clearRequestTimeout(s, c)
             s2 == [s1 EXCEPT !.pendingRequests[m.id] = 0]
         IN Settle(s2, c, Result(m.result))
    ELSE [s EXCEPT !.noop = TRUE]

handleMessage(s, m) ==
    IF m.kind = "reply" /\ has(s, m.id)
    THEN LET c == s.pendingRequests[m.id]
             s1 == clearRequestTimeout(s, c)
             s2 == [s1 EXCEPT !.pendingRequests[m.id] = 0]
         IN IF m.err \in {"msg", "nomsg"}
            THEN Settle(s2, c, ToolExecution(IF m.emsg # "" THEN m.emsg
                                             ELSE "Unknown error"))
            ELSE Settle(s2, c, Result(m.result))
    ELSE [s EXCEPT !.noop = TRUE]

\* requestTimeout that sends the timed-out request again before it reconnects.
requestTimeout_Resends(s, c) ==
    LET id == s.requestId[c]
        s1 == [s EXCEPT !.reqTimer[c] = "fired", !.timerQ = Without(@, ReqT(c))]
        s2 == IF has(s1, id)
              THEN Settle([s1 EXCEPT !.pendingRequests[id] = 0,
                                     !.sent[c] = IF isConnected(s1) THEN @ + 1 ELSE @],
                          c, Timeout)
              ELSE [s1 EXCEPT !.noop = TRUE]
    IN reconnect(s2)

\* The callback of the request timer of call c.
requestTimeout(s, c) ==
    LET id == s.requestId[c]
        s1 == [s EXCEPT !.reqTimer[c] = "fired", !.timerQ = Without(@, ReqT(c))]
        s2 == IF has(s1, id)
              THEN Settle([s1 EXCEPT !.pendingRequests[id] = 0], c, Timeout)
              ELSE [s1 EXCEPT !.noop = TRUE]
    IN reconnect(s2)

\* The callback of connectionTimeout of the connect() that made handle h.
connectionTimeout(s, h) ==
    LET s1 == [s EXCEPT !.connTimer[h] = "fired", !.timerQ = Without(@, ConnT(h))]
    IN IF s1.ws # 0 /\ s1.readyState[s1.ws] = "CONNECTING"
       THEN LET s2 == disconnect(s1)
                s3 == settleConnect(s2, h, FALSE)
            IN IF wasPending(s, h)
               THEN resume(s3, s.connectOwner[h], FALSE, "Connection timeout")
               ELSE s3
       ELSE [s1 EXCEPT !.noop = TRUE]

\* sendRequest(request) up to its first suspension.
sendRequest(s, c, rid, throws) ==
    LET s1 == [s EXCEPT !.requestId[c] = IF rid = 0 THEN c ELSE rid,
                        !.sendThrows[c] = throws,
                        !.stage[c] = "connecting"]
    IN IF ~isConnected(s1)
       THEN connect([s1 EXCEPT !.attempts[c] = @ + 1], SendOwner(c))
       ELSE dispatch(s1, c)

\* start(clientName) up to its first suspension.
start(s, k) == connect([s EXCEPT !.startStage[k] = "awaiting"], StartOwner(k))

stop(s) == disconnect(s)

\* ----------------------------------------------------------------- actions
\* Calls are issued in the order 1, 2, ...
SendRequest ==
    \E c \in Calls, rid \in UserIds \cup {0}, throws \in BOOLEAN :
        /\ stage[c] = "idle"
        /\ \A d \in Calls : d < c => stage[d] # "idle"
        /\ \E s \in {sendRequest(Cur, c, rid, throws)} :
              Commit(s, "sendRequest", c, NoMessage)

Start ==
    \E k \in Starts :
        /\ startStage[k] = "idle"
        /\ \A j \in Starts : j < k => startStage[j] # "idle"
        /\ \E s \in {start(Cur, k)} : Commit(s, "start", k, NoMessage)

Stop ==
    \E s \in {stop(Cur)} : Commit(s, "stop", 0, NoMessage)

SocketOpen ==
    \E early \in EarlyFrames :
        /\ ws # 0 /\ handlers[ws] /\ readyState[ws] = "CONNECTING"
        /\ \E s \in {onopen(Cur, ws, early)} : Commit(s, "onopen", ws, NoMessage)

SocketError ==
    /\ ws # 0 /\ handlers[ws] /\ readyState[ws] \in {"CONNECTING", "OPEN"}
    /\ \E s \in {onerror(Cur, ws)} : Commit(s, "onerror", ws, NoMessage)

\* The peer's close frame arrives: the handle is CLOSING until the socket ends.
SocketClosing ==
    /\ ws # 0 /\ handlers[ws] /\ readyState[ws] = "OPEN"
    /\ \E s \in {[Cur EXCEPT !.readyState[ws] = "CLOSING"]} :
          Commit(s, "closing", ws, NoMessage)

SocketClose ==
    /\ ws # 0 /\ handlers[ws] /\ readyState[ws] \in {"OPEN", "CLOSING"}
    /\ \E s \in {onclose(Cur, ws)} : Commit(s, "onclose", ws, NoMessage)

SocketMessage ==
    \E m \in Messages :
        /\ ws # 0 /\ handlers[ws] /\ readyState[ws] = "OPEN"
        /\ \E s \in {handleMessage(Cur, m)} : Commit(s, "onmessage", ws, m)

\* All timers run for REQUEST_TIMEOUT, so they expire in the order they were set.
RequestTimerFires ==
    /\ timerQ # <<>> /\ Head(timerQ).kind = "req"
    /\ \E s \in {requestTimeout(Cur, Head(timerQ).n)} :
          Commit(s, "requestTimeout", Head(timerQ).n, NoMessage)

ConnectTimerFires ==
    /\ timerQ # <<>> /\ Head(timerQ).kind = "conn"
    /\ \E s \in {connectionTimeout(Cur, Head(timerQ).n)} :
          Commit(s, "connectionTimeout", Head(timerQ).n, NoMessage)

Next ==
    \/ SendRequest
    \/ Start
    \/ Stop
    \/ SocketOpen
    \/ SocketError
    \/ SocketClosing
    \/ SocketClose
    \/ SocketMessage
    \/ RequestTimerFires
    \/ ConnectTimerFires

Spec == Init /\ [][Next]_vars

\* Timers that are armed do expire.
FairSpec == Spec /\ WF_vars(RequestTimerFires) /\ WF_vars(ConnectTimerFires)

\* ------------------------------------------------------------------ claims
Suspended(c) == stage[c] \in {"connecting", "waiting"}
Entries == {i \in Ids : pendingRequests[i] # 0}
NotLast == <<ws, readyState, handlers, connectPromise, connectOwner, connTimer,
             nHandles, pendingRequests, timerQ, stage, requestId, sendThrows,
             reqTimer, outcome, settles, sent, sentOn, attempts, startStage>>

\* C1: in every run made of sendRequest calls, socket events and timers (no
\* start() or stop() by the application), every sendRequest call that has been
\* issued eventually completes, with a result or an error; none stays
\* suspended forever in its connect step or while it waits for its reply.
C1_EveryCallCompletes ==
    \/ <>(last.op \in {"start", "stop"})
    \/ \A c \in Calls : Suspended(c) ~> (stage[c] = "done")

\* C2: resolve/reject of the promise of a sendRequest call is invoked at most
\* once, whatever the order of replies, timers and socket events.
C2_SettledAtMostOnce == \A c \in Calls : settles[c] <= 1

\* C2 witness: a reply for the identifier of a call arrives after that call
\* has already failed with Timeout.
C2_Witness ==
    /\ last.op = "onmessage" /\ last.msg.kind = "reply"
    /\ \E c \in Calls : /\ requestId[c] = last.msg.id
                        /\ outcome[c].kind = "Timeout"
                        /\ settles[c] = 1

\* Call c fails in this step with one of the per-request failures.
FailsWith(c, kinds) ==
    /\ outcome[c] = NoOutcome
    /\ outcome'[c].kind \in kinds
    /\ outcome'[c].kind = "Connection" => outcome'[c].msg = "Send failed"

\* Every entry other than the one of call c is left as it was, armed, on the
\* same open handle.
OthersKept(c) ==
    \A i \in Entries :
       i # requestId'[c] =>
          /\ pendingRequests'[i] = pendingRequests[i]
          /\ reqTimer'[pendingRequests[i]] = "armed"
          /\ outcome'[pendingRequests[i]] = NoOutcome
          /\ ws' = ws /\ ws' # 0 /\ readyState'[ws'] = "OPEN" /\ handlers'[ws']

Disconnected(s) ==
    /\ s.ws = 0
    /\ \A i \in Ids : s.pendingRequests[i] = 0
    /\ ~isConnected(s)

C4_AfterDisconnect ==
    /\ Disconnected(disconnect(Cur))
    /\ (last.op \in {"stop", "onclose", "onerror"}
        \/ (last.op = "connectionTimeout" /\ ~last.noop)) => Disconnected(Cur)

\* C4 witness: stop() has just torn down a handle with pending entries.
C4_Witness == last.op = "stop" /\ last.torn = 1 /\ last.drained # {} /\ ws = 0

\* C5: on every teardown each entry still in the table at that moment (a
\* request timeout removes its own entry before it reconnects) has its timer
\* cancelled, is removed, and its caller fails with Connection 'Connection
\* closed'.
C5_TeardownRejectsAll ==
    [][last'.torn > 0 =>
          \A i \in Entries :
             ~(last'.op = "requestTimeout" /\ i = requestId[last'.n]) =>
                LET c == pendingRequests[i]
                IN /\ outcome'[c] = Connection("Connection closed")
                   /\ stage'[c] = "done"
                   /\ reqTimer'[c] = "cancelled"
                   /\ pendingRequests'[i] = 0]_vars

\* C5 witness: the reconnect after a request timeout has just rejected another
\* pending entry.
C5_Witness ==
    /\ last.op = "requestTimeout" /\ last.torn = 1 /\ last.drained # {}
    /\ \A c \in last.drained : outcome[c] = Connection("Connection closed")

\* C6: an inbound frame that does not parse, has no identifier, or has an
\* identifier that is not in the table changes nothing.
Unrouted(m) == m.kind # "reply" \/ pendingRequests[m.id] = 0

C6_UnroutedChangesNothing ==
    [][(last'.op = "onmessage" /\ Unrouted(last'.msg)) => UNCHANGED NotLast]_vars

\* C6 witness: a reply has just arrived for a call that timed out before, while
\* another entry is pending.
C6_Witness ==
    /\ last.op = "onmessage" /\ last.noop /\ last.msg.kind = "reply"
    /\ \E c \in Calls : requestId[c] = last.msg.id /\ outcome[c].kind = "Timeout"
    /\ Entries # {}

\* C7: a reply whose identifier is in the table removes exactly that entry,
\* cancels its timer and completes exactly that caller: with the result
\* payload when the reply carries no error, with a ToolExecution error with
\* the peer's message ('Unknown error' when the error has none) when it does.
Expected(m) ==
    IF m.err \in {"msg", "nomsg"}
    THEN ToolExecution(IF m.err = "msg" THEN m.emsg ELSE "Unknown error")
    ELSE Result(m.result)

C7_ReplyRoutedToItsCaller ==
    [][(last'.op = "onmessage" /\ ~Unrouted(last'.msg)) =>
          LET m == last'.msg
              c == pendingRequests[m.id]
          IN /\ pendingRequests' = [pendingRequests EXCEPT ![m.id] = 0]
             /\ reqTimer' = [reqTimer EXCEPT ![c] = "cancelled"]
             /\ timerQ' = Without(timerQ, ReqT(c))
             /\ outcome' = [outcome EXCEPT ![c] = Expected(m)]
             /\ settles' = [settles EXCEPT ![c] = 1]
             /\ stage' = [stage EXCEPT ![c] = "done"]
             /\ UNCHANGED <<ws, readyState, handlers, connectPromise, connectOwner,
                            connTimer, nHandles, sent, attempts, startStage>>]_vars

\* C7 witness: an error reply has just been routed to its caller while
\* another entry stays pending.
C7_Witness ==
    /\ last.op = "onmessage" /\ ~last.noop /\ last.msg.err = "msg"
    /\ \E c \in Calls : requestId[c] = last.msg.id /\ outcome[c] = ToolExecution("boom")
    /\ Entries # {}

\* C8: when the request timer of a call fires, no reply has been routed for
\* its identifier (its entry is still there), the entry is removed, the call
\* fails with Timeout, and exactly one teardown and one connect attempt follow.
C8_TimeoutThenOneReconnect ==
    last.op = "requestTimeout" =>
        /\ ~last.noop
        /\ outcome[last.n] = Timeout
        /\ pendingRequests[requestId[last.n]] = 0
        /\ last.torn = 1
        /\ last.made = 1

\* C9: a sendRequest called while not connected makes exactly one connect
\* attempt and nothing else; when that attempt fails the call fails with a
\* Connection error, has transmitted nothing and has no entry in the table.
ConnectFailed(c) ==
    \E h \in Handles : connectOwner[h] = SendOwner(c) /\ connectPromise[h] = "rejected"

C9_OneConnectAttempt ==
    /\ \A c \in Calls :
          /\ attempts[c] <= 1
          /\ Cardinality({h \in Handles : connectOwner[h] = SendOwner(c)}) = attempts[c]
          /\ ConnectFailed(c) =>
                /\ outcome[c].kind = "Connection"
                /\ stage[c] = "done"
                /\ sent[c] = 0
                /\ reqTimer[c] = "none"
                /\ \A i \in Ids : pendingRequests[i] # c
    /\ (last.op = "sendRequest" /\ attempts[last.n] = 1) =>
          /\ last.made = 1
          /\ stage[last.n] = "connecting"
          /\ sent[last.n] = 0
          /\ \A i \in Ids : pendingRequests[i] # last.n
    /\ (last.op = "sendRequest" /\ attempts[last.n] = 0) =>
          /\ last.made = 0 /\ last.torn = 0

\* C9 witness: the connect attempt of a sendRequest call has failed.
C9_Witness ==
    \E c \in Calls : attempts[c] = 1 /\ ConnectFailed(c) /\ outcome[c].kind = "Connection"

\* C10: connect() called while the held handle is open succeeds at once and
\* changes nothing: same handle, no new handle, no teardown, table and timers
\* unchanged.
C10_ConnectWhileOpen ==
    [][(last'.op = "start" /\ ws # 0 /\ readyState[ws] = "OPEN") =>
          /\ startStage'[last'.n] = "done"
          /\ last'.made = 0 /\ last'.torn = 0
          /\ UNCHANGED <<ws, readyState, handlers, connectPromise, connectOwner,
                         connTimer, nHandles, pendingRequests, timerQ, stage,
                         requestId, reqTimer, outcome, settles, sent, attempts>>]_vars

\* C10 witness: start() has just called connect() on an open handle with a
\* pending entry.
C10_Witness ==
    /\ last.op = "start" /\ last.noop
    /\ ws # 0 /\ readyState[ws] = "OPEN"
    /\ Entries # {}

\* C11: at most one handle is active (handlers attached), and it is the held
\* one; a step that creates a handle leaves the handle held before it
\* detached and closed, also when that handle was still connecting.
Active == {h \in Handles : handlers[h]}

C11_OneActiveHandle ==
    /\ Cardinality(Active) <= 1
    /\ \A h \in Active : ws = h /\ readyState[h] \in {"CONNECTING", "OPEN", "CLOSING"}
    /\ \A h \in Handles : (readyState[h] # "NONE" /\ h # ws) =>
          ~handlers[h] /\ readyState[h] \in {"CLOSING", "CLOSED"}
    /\ last.made > 0 => (ws = nHandles /\ last.made = 1 /\ Active = {ws})

\* C11 witness: a sendRequest has just created a handle while the handle of
\* an earlier connect() was still connecting; that one is detached, and its
\* connect() is still unsettled.
C11_Witness ==
    /\ last.op = "sendRequest" /\ last.made = 1 /\ last.torn = 1
    /\ ws > 1 /\ handlers[ws]
    /\ readyState[ws - 1] = "CLOSED" /\ connectPromise[ws - 1] = "pending"
    /\ ~handlers[ws - 1]

\* C12: every entry in the table belongs to a call that was transmitted on
\* the handle held now, which is open or closing; so the table is empty when
\* no handle is held and right after a handle has been created.
C12_EntriesOnHeldHandle ==
    /\ \A i \in Entries :
          LET c == pendingRequests[i]
          IN /\ ws # 0 /\ sentOn[c] = ws /\ sent[c] = 1
             /\ readyState[ws] \in {"OPEN", "CLOSING"}
    /\ ws = 0 => Entries = {}
    /\ last.made > 0 => Entries = {}

\* C12 witness: a handle has just been created by a step that tore down a
\* handle with pending entries.
C12_Witness ==
    /\ last.made = 1 /\ last.torn = 1 /\ last.drained # {}
    /\ ws # 0 /\ readyState[ws] = "CONNECTING"
    /\ \A c \in last.drained : sentOn[c] # 0 /\ sentOn[c] # ws

\* C13: every connect() that created a handle eventually settles (resolved
\* or rejected), also when another connect(), disconnect() or reconnect()
\* runs while its handle is still connecting.
C13_ConnectSettles ==
    \A h \in Handles : (connectPromise[h] = "pending") ~> (connectPromise[h] # "pending")

\* C14: a sendRequest call transmits at most one message over its whole
\* life, also after it failed with Timeout and the connection was renewed.
C14_AtMostOneTransmission == \A c \in Calls : sent[c] <= 1

\* C14 witness: the handle created by the reconnect after a Timeout has
\* opened, and the timed-out call has still been transmitted once.
C14_Witness ==
    /\ last.op = "onopen" /\ ws # 0 /\ readyState[ws] = "OPEN"
    /\ \E c \in Calls : /\ outcome[c] = Timeout /\ sent[c] = 1
                        /\ sentOn[c] # ws

\* C15: the request timer of a call is armed if and only if the entry the
\* call registered is in the table, and a timer that fires finds either no
\* entry or the entry of its own call.
C15_TimerIffEntry ==
    \A c \in Calls :
       (reqTimer[c] = "armed") <=> (requestId[c] # 0 /\ pendingRequests[requestId[c]] = c)

\* C16: a call registers its entry and transmits only on the held handle,
\* open at that step; when the handle is no longer open once the connect step
\* is over (the connect() of the call resolved, then a close or error came
\* before the executor ran), the call fails with a Connection error, has
\* transmitted nothing, and has neither entry nor timer.
Registers(c) ==
    \/ sent'[c] > sent[c]
    \/ reqTimer[c] = "none" /\ reqTimer'[c] # "none"
    \/ \E i \in Ids : pendingRequests[i] # c /\ pendingRequests'[i] = c

ConnectStepOver(c) ==
    /\ stage[c] = "connecting"
    /\ \E h \in Handles : /\ connectOwner[h] = SendOwner(c)
                          /\ connectPromise[h] = "pending"
                          /\ connectPromise'[h] = "resolved"

HeldOpen == ws' # 0 /\ readyState'[ws'] = "OPEN" /\ handlers'[ws']

C16_SendsOnlyOnOpenHandle ==
    [][\A c \in Calls :
          /\ Registers(c) => HeldOpen /\ (sent'[c] > sent[c] => sentOn'[c] = ws')
          /\ (ConnectStepOver(c) /\ ~HeldOpen) =>
                /\ outcome'[c].kind = "Connection"
                /\ stage'[c] = "done"
                /\ sent'[c] = 0
                /\ reqTimer'[c] = "none"
                /\ \A i \in Ids : pendingRequests'[i] # c]_vars

\* C16 witness: the connect() of a call resolved, the handle was closed
\* before the call could transmit, and the call failed without sending.
C16_Witness ==
    /\ last.op = "onopen"
    /\ ws = 0 \/ readyState[ws] # "OPEN"
    /\ \E c \in Calls : /\ outcome[c] = Connection("Not connected to Unity")
                        /\ attempts[c] = 1 /\ sent[c] = 0
                        /\ \E h \in Handles : /\ connectOwner[h] = SendOwner(c)
                                              /\ connectPromise[h] = "resolved"

\* C17: when the send throws, the caller fails with Connection 'Send failed'
\* with its timer cancelled and no entry of its own, in the same step; the
\* timer stays cancelled (no Timeout, no reconnect for it), nothing is torn
\* down in that step, and the entries and timers of the other calls are as
\* they were before the step.
SendFailed == Connection("Send failed")

C17_SendFailureCleansUp ==
    [][\A c \in Calls :
          /\ outcome'[c] = SendFailed =>
                /\ reqTimer'[c] = "cancelled"
                /\ sent'[c] = 0
                /\ \A i \in Ids : pendingRequests'[i] # c
                /\ \A k \in 1..Len(timerQ') : timerQ'[k] # ReqT(c)
          /\ (outcome[c] = NoOutcome /\ outcome'[c] = SendFailed) =>
                /\ last'.torn = 0 /\ last'.made = 0
                /\ pendingRequests' = pendingRequests
                /\ \A d \in Calls : d # c =>
                      reqTimer'[d] = reqTimer[d] /\ outcome'[d] = outcome[d]]_vars

\* C18: when the connect() of start() rejects (transport error or connect
\* timeout), start() completes normally in that step and leaves no handle, an
\* empty table and isConnected false, so that the next sendRequest connects.
StartConnectFailed(k) ==
    \E h \in Handles : connectOwner[h] = StartOwner(k) /\ connectPromise[h] = "rejected"

StartFailedNow ==
    /\ last.op \in {"onerror", "connectionTimeout"}
    /\ connectOwner[last.n].kind = "start"
    /\ connectPromise[last.n] = "rejected"

C18_StartNeverFails ==
    /\ \A k \in Starts :
          /\ startStage[k] \in {"idle", "awaiting", "done"}
          /\ StartConnectFailed(k) => startStage[k] = "done"
    /\ StartFailedNow =>
          /\ Disconnected(Cur)
          /\ \A c \in Calls : stage[c] = "idle" =>
                LET s == sendRequest(Cur, c, 0, FALSE)
                IN s.attempts[c] = 1 /\ s.made = 1 /\ s.stage[c] = "connecting"

\* C18 witness: the connect() of start() has just been rejected by its
\* connect timeout, and start() is done.
C18_Witness ==
    /\ StartFailedNow /\ last.op = "connectionTimeout"
    /\ startStage[connectOwner[last.n].n] = "done"
    /\ ws = 0

\* C19: the connect timer of an earlier connect() that expires while a newer
\* handle is held leaves that handle held, attached and in its state, and
\* leaves the table and every call as they were.
C19_TimerActsOnOwnHandle ==
    [][(last'.op = "connectionTimeout" /\ ws # 0 /\ ws # last'.n) =>
          /\ ws' = ws
          /\ handlers'[ws] /\ readyState'[ws] = readyState[ws]
          /\ pendingRequests' = pendingRequests
          /\ outcome' = outcome]_vars

====
